---- MODULE Spec2Model ----
(***************************************************************************)
(* SlitherBOT: the orchestrator's run loop (bot.py), the session manager   *)
(* with its receiver and keep-alive tasks (protocol.py), the world model   *)
(* (state.py) and the planner (planner.py) as one state machine.           *)
(*                                                                         *)
(* asyncio is cooperative: the code between two awaits is one step.  Time  *)
(* is time.monotonic() in whole seconds, and each reading is at least the  *)
(* one before; headings are integers in                                    *)
(* thousandths of a degree, so that rate * 1e-3 is an integer.  Positions  *)
(* are not modelled: what a strategy derives from them (its heading, the   *)
(* threats in range) is drawn from small sets.                             *)
(***************************************************************************)
EXTENDS Integers, Sequences, FiniteSets, TLC

\* ---- bounds of the model ----
MaxReconnect == 1      \* reconnect_attempts is drawn from 0..MaxReconnect
MaxRateLimit == 2      \* send_rate_limit is drawn from 1..MaxRateLimit
MaxClock == 2          \* time.monotonic() reads 0..MaxClock
MaxQueue == 1          \* messages waiting in the inbound queue
MaxFoods == 2          \* items of one food_batch / kept in the list
MaxHazards == 2        \* zones kept in the list

VARIABLES
    config,       \* BotConfig: the knobs the run reads (input of the run)
    frames,       \* the frames the server may send in this run (input)
    pc,           \* where SlitherBot.run is
    retries,      \* local of run
    exc,          \* the exception in flight in run, "none" if none
    proto,        \* the SlitherProtocol objects, one per attempt, in order
    protocol,     \* SlitherBot._protocol: index into proto, 0 for None
    last_send,    \* SlitherBot._last_send
    state,        \* GameState
    planner,      \* ActionPlanner: last_heading, last_time, last_plan
    now,          \* the last reading of time.monotonic(): the local of _loop
    wire,         \* the frame the last step gave to a transport, if any
    logged,       \* the error the last step logged, if any
    moves,        \* the last two transmitted move commands: time, connection
    sleeps        \* the delays run has slept, in order

vars == <<config, frames, pc, retries, exc, proto, protocol, last_send,
          state, planner, now, wire, logged, moves, sleeps>>

\* ---- JSON values and frames ----
Val(v) == [ok |-> TRUE, v |-> v]       \* a field value of the expected shape
Bad == [ok |-> FALSE]                  \* a field value of another JSON type

Garbage == [k |-> "garbage"]           \* text that json.loads rejects
NonObject == [k |-> "nonobj"]          \* valid JSON that is not an object
Obj(type, payload) == [k |-> "obj", type |-> type, payload |-> payload]
Untyped == [k |-> "obj"]               \* an object without "type" and "payload"

IncomingMessage(type, payload) == [type |-> type, payload |-> payload]
Disconnect == IncomingMessage("disconnect", <<>>)

Has(payload, key) == key \in DOMAIN payload
Get(payload, key, default) == IF Has(payload, key) THEN payload[key] ELSE default

\* ---- config.py ----
StrategyMode == {"farm", "hunt", "survival"}

BotConfig(attempts, backoff, rate, decay) ==
    [reconnect_attempts |-> attempts, reconnect_backoff |-> backoff,
     send_rate_limit |-> rate, food_decay_seconds |-> decay,
     mode |-> "farm", turning_rate |-> 90,
     base_speed |-> 25, boost_speed |-> 45]

\* ---- state.py: the world model ----
Snake(id, heading, is_self) == [id |-> id, heading |-> heading, is_self |-> is_self]
Food(mass, created) == [mass |-> mass, created |-> created]
Hazard(expires) == [expires |-> expires]

GameState == [snakes |-> <<>>, foods |-> <<>>, hazards |-> <<>>,
              world_size |-> <<1200, 1200>>]

Selves(st) == {i \in DOMAIN st.snakes : st.snakes[i].is_self}
Min(S) == CHOOSE x \in S : \A y \in S : x <= y

\* the first actor, in dict order, whose is_self is true
self_snake(st) ==
    IF Selves(st) = {} THEN [none |-> TRUE] ELSE st.snakes[Min(Selves(st))]

\* dict assignment: an existing key keeps its place, a new key goes last
update_snakes(st, snake) ==
    LET at == {i \in DOMAIN st.snakes : st.snakes[i].id = snake.id}
    IN  [st EXCEPT !.snakes =
            IF at = {} THEN Append(st.snakes, snake)
            ELSE [i \in DOMAIN st.snakes |->
                     IF i \in at THEN snake ELSE st.snakes[i]]]

remove_snake(st, id) ==
    LET Other(s) == s.id # id
    IN  [st EXCEPT !.snakes = SelectSeq(st.snakes, Other)]

\* list.sort(key=mass, reverse=True) is stable: insert after the items that
\* are at least as heavy
RECURSIVE InsertByMass(_, _)
InsertByMass(sorted, food) ==
    IF sorted = <<>> THEN <<food>>
    ELSE IF Head(sorted).mass >= food.mass
         THEN <<Head(sorted)>> \o InsertByMass(Tail(sorted), food)
         ELSE <<food>> \o sorted

RECURSIVE SortByMass(_)
SortByMass(foods) ==
    IF foods = <<>> THEN <<>>
    ELSE InsertByMass(SortByMass(SubSeq(foods, 1, Len(foods) - 1)),
                      foods[Len(foods)])

update_food(st, foods) == [st EXCEPT !.foods = SortByMass(st.foods \o foods)]

\* line 81 with < for <=
decay_food_strict(st, t, decay_seconds) ==
    LET Fresh(f) == t - f.created < decay_seconds
    IN  [st EXCEPT !.foods = SelectSeq(st.foods, Fresh)]

decay_food(st, t, decay_seconds) ==
    LET Fresh(f) == t - f.created <= decay_seconds
    IN  [st EXCEPT !.foods = SelectSeq(st.foods, Fresh)]

\* line 91 with >= for >
prune_hazards_late(st, t) ==
    LET Live(h) == h.expires >= t
    IN  [st EXCEPT !.hazards = SelectSeq(st.hazards, Live)]

prune_hazards(st, t) ==
    LET Live(h) == h.expires > t
    IN  [st EXCEPT !.hazards = SelectSeq(st.hazards, Live)]

mark_hazard(st, expires) == [st EXCEPT !.hazards = Append(st.hazards, Hazard(expires))]

Abs(x) == IF x < 0 THEN -x ELSE x
Sign(x) == IF x > 0 THEN 1 ELSE IF x < 0 THEN -1 ELSE 0

\* line 127 with a step of twice max_step
blend_headings_double(current, target, rate, dt) ==
    LET diff == ((target - current + 540000) % 360000) - 180000
        max_step == rate * dt
    IN  IF Abs(diff) <= max_step THEN target
        ELSE (current + 2 * max_step * Sign(diff)) % 360000

\* headings in thousandths of a degree, rate in degrees per second, dt in
\* milliseconds: rate * dt is then in thousandths of a degree
blend_headings(current, target, rate, dt) ==
    LET diff == ((target - current + 540000) % 360000) - 180000
        max_step == rate * dt
    IN  IF Abs(diff) <= max_step THEN target
        ELSE (current + max_step * Sign(diff)) % 360000

\* ---- strategies.py ----
\* the bearings a strategy can compute from the positions (not modelled)
Bearings == {0, 90000, 180000}

StrategyDecision(heading, boost, reason) ==
    [heading |-> heading, boost |-> boost, reason |-> reason]

Others(st) == {i \in DOMAIN st.snakes : ~st.snakes[i].is_self}

FarmStrategy(st, cfg, snake) ==
    IF st.foods # <<>>
    THEN {StrategyDecision(b, FALSE, "food") : b \in Bearings}
    ELSE {StrategyDecision(blend_headings(snake.heading, b, cfg.turning_rate, 50),
                           FALSE, "center") : b \in Bearings}

HuntStrategy(st, cfg, snake) ==
    IF Others(st) = {} THEN FarmStrategy(st, cfg, snake)
    ELSE {StrategyDecision(b, boost, "hunt") : b \in Bearings, boost \in BOOLEAN}

SurvivalStrategy(st, cfg, snake) ==
    (IF Others(st) = {} THEN {}
     ELSE {StrategyDecision((b + 180000) % 360000, TRUE, "evade") : b \in Bearings})
    \cup {[d EXCEPT !.reason = "patrol"] : d \in FarmStrategy(st, cfg, snake)}

make_strategy(mode) ==
    IF mode \in StrategyMode THEN mode ELSE "ValueError"

\* BaseStrategy.select: the decisions the strategy can return in this state
select(strategy, st, cfg) ==
    LET snake == self_snake(st)
    IN  IF Has(snake, "none") THEN {StrategyDecision(0, FALSE, "no-self")}
        ELSE IF strategy = "farm" THEN FarmStrategy(st, cfg, snake)
        ELSE IF strategy = "hunt" THEN HuntStrategy(st, cfg, snake)
        ELSE SurvivalStrategy(st, cfg, snake)

\* ---- planner.py ----
PlannedAction(heading, boost, throttle, reason) ==
    [heading |-> heading, boost |-> boost, throttle |-> throttle, reason |-> reason]

ActionPlanner(strategy, t) ==
    [strategy |-> strategy, last_heading |-> 0, last_plan |-> [none |-> TRUE],
     last_time |-> t]

\* a step that records its time also when it only waits
step_touching(pl, st, cfg, t, decision) ==
    LET snake == self_snake(st)
        elapsed == (t - pl.last_time) * 1000
        dt == IF elapsed > 1 THEN elapsed ELSE 1
        from == IF pl.last_heading # 0 THEN pl.last_heading ELSE snake.heading
        heading == blend_headings(from, decision.heading, cfg.turning_rate, dt)
        throttle == IF decision.boost THEN cfg.boost_speed ELSE cfg.base_speed
        plan == PlannedAction(heading, decision.boost, throttle, decision.reason)
    IN  IF Has(snake, "none")
        THEN [planner |-> [pl EXCEPT !.last_time = t],
              plan |-> PlannedAction(pl.last_heading, FALSE, 0, "waiting")]
        ELSE [planner |-> [pl EXCEPT !.last_heading = heading,
                                     !.last_plan = plan, !.last_time = t],
              plan |-> plan]

\* ActionPlanner.step for one decision of the strategy: the planner after
\* the step and the plan it returns
step(pl, st, cfg, t, decision) ==
    LET snake == self_snake(st)
        elapsed == (t - pl.last_time) * 1000
        dt == IF elapsed > 1 THEN elapsed ELSE 1
        from == IF pl.last_heading # 0 THEN pl.last_heading ELSE snake.heading
        heading == blend_headings(from, decision.heading, cfg.turning_rate, dt)
        throttle == IF decision.boost THEN cfg.boost_speed ELSE cfg.base_speed
        plan == PlannedAction(heading, decision.boost, throttle, decision.reason)
    IN  IF Has(snake, "none")
        THEN [planner |-> pl,
              plan |-> PlannedAction(pl.last_heading, FALSE, 0, "waiting")]
        ELSE [planner |-> [pl EXCEPT !.last_heading = heading,
                                     !.last_plan = plan, !.last_time = t],
              plan |-> plan]

\* ---- bot.py: message-to-state translation ----
Return(st, mode) == [state |-> st, mode |-> mode, raised |-> "none"]
Raise(st, mode, error) == [state |-> st, mode |-> mode, raised |-> error]

\* lines 58-91 of _handle_message: the if/elif chain.  Every branch raises
\* before it has changed anything.
Translate(st, cfg, m, t) ==
    LET p == m.payload IN
    IF m.type = "world" /\ Has(p, "size")
    THEN IF p.size.ok THEN Return([st EXCEPT !.world_size = p.size.v], cfg.mode)
         ELSE Raise(st, cfg.mode, "TypeError")
    ELSE IF m.type = "snake" /\ Has(p, "id")
    THEN Return(update_snakes(st, Snake(p.id, Get(p, "heading", 0),
                                        Get(p, "self", FALSE))), cfg.mode)
    ELSE IF m.type = "snake_leave"
    THEN Return(remove_snake(st, Get(p, "id", "None")), cfg.mode)
    ELSE IF m.type = "food_batch"
    THEN LET items == Get(p, "items", Val(<<>>)) IN
         IF items.ok
         THEN Return(update_food(st, [i \in DOMAIN items.v |-> Food(items.v[i], t)]),
                     cfg.mode)
         ELSE Raise(st, cfg.mode, "TypeError")
    ELSE IF m.type = "hazard"
    THEN LET duration == Get(p, "duration", Val(2)) IN
         IF duration.ok THEN Return(mark_hazard(st, t + duration.v), cfg.mode)
         ELSE Raise(st, cfg.mode, "TypeError")
    ELSE IF m.type = "mode"
    THEN LET value == Get(p, "value", cfg.mode) IN
         IF value \in StrategyMode THEN Return(st, value)
         ELSE Raise(st, cfg.mode, "ValueError")
    ELSE Return(st, cfg.mode)

\* _handle_message: the translation, then (lines 92-93, reached only when
\* the translation returned) the two sweeps
handle_message(st, cfg, m, t) ==
    LET tr == Translate(st, cfg, m, t)
    IN  IF tr.raised # "none" THEN tr
        ELSE [tr EXCEPT !.state = prune_hazards(
                             decay_food(tr.state, t, cfg.food_decay_seconds), t)]

\* ---- protocol.py ----
SlitherProtocol ==
    [ws |-> FALSE, link |-> "none", stop |-> FALSE, receiver |-> "none",
     queue |-> <<>>, hb |-> "none"]

Frame(k, type) == [conn |-> k, type |-> type]
NoFrame == [conn |-> 0]
Log(where, error) == [where |-> where, error |-> error]
NoLog == [where |-> "none"]

\* a step that sends nothing and logs no error
Silent == wire' = NoFrame /\ logged' = NoLog

\* send without the test of line 82
send_unchecked(k) ==
    IF proto[k].link = "open" THEN "sent" ELSE "ConnectionClosed"

\* SlitherProtocol.send on the k-th protocol object: what the call does
send(k) ==
    IF ~proto[k].ws THEN "RuntimeError"
    ELSE IF proto[k].link = "open" THEN "sent"
    ELSE "ConnectionClosed"

Put(k, m) == [proto EXCEPT ![k].queue = Append(@, m)]

\* ---- SlitherBot.run ----
\* line 98 with the elapsed time compared against nothing
never_too_soon(t, cfg) == t - last_send < 0

\* line 98 of _maybe_act
too_soon(t, cfg) == t - last_send < cfg.send_rate_limit

\* a backoff that starts the count again after a session without error
BackoffReset(error) ==
    /\ exc' = "none"
    /\ logged' = IF error = "none" THEN NoLog ELSE Log("run", error)
    /\ retries' = IF error = "none" THEN 0 ELSE retries + 1
    /\ sleeps' = Append(sleeps, config.reconnect_backoff * retries')
    /\ pc' = "backoff"

\* lines 45-48: the except clause logs the error, retries += 1 and the
\* backoff sleep begins
Backoff(error) ==
    /\ exc' = "none"
    /\ logged' = IF error = "none" THEN NoLog ELSE Log("run", error)
    /\ retries' = retries + 1
    /\ sleeps' = Append(sleeps, config.reconnect_backoff * (retries + 1))
    /\ pc' = "backoff"

\* a connect that builds a new world model for the new session
ConnectOkReset ==
    /\ pc = "connect"
    /\ proto' = Append(proto, [SlitherProtocol EXCEPT !.ws = TRUE, !.link = "open",
                                  !.stop = FALSE, !.receiver = "running",
                                  !.hb = "start"])
    /\ protocol' = Len(proto) + 1
    /\ pc' = "join"
    /\ Silent
    /\ state' = GameState
    /\ UNCHANGED <<config, frames, retries, exc, last_send, planner,
                   now, moves, sleeps>>

\* line 36: a new SlitherProtocol; websockets.connect succeeds, __aenter__
\* starts the two tasks, line 37 stores the protocol
ConnectOk ==
    /\ pc = "connect"
    /\ proto' = Append(proto, [SlitherProtocol EXCEPT !.ws = TRUE, !.link = "open",
                                  !.stop = FALSE, !.receiver = "running",
                                  !.hb = "start"])
    /\ protocol' = Len(proto) + 1
    /\ pc' = "join"
    /\ Silent
    /\ UNCHANGED <<config, frames, retries, exc, last_send, state, planner,
                   now, moves, sleeps>>

\* line 36: websockets.connect raises; __aexit__ is not called
ConnectFail ==
    /\ pc = "connect"
    /\ proto' = Append(proto, SlitherProtocol)
    /\ wire' = NoFrame
    /\ Backoff("OSError")
    /\ UNCHANGED <<config, frames, protocol, last_send, state, planner,
                   now, moves>>

\* lines 38-43: the join command
Join ==
    /\ pc = "join"
    /\ IF send(protocol) = "sent"
       THEN /\ wire' = Frame(protocol, "join")
            /\ pc' = "loop"
            /\ exc' = exc
       ELSE /\ wire' = NoFrame
            /\ pc' = "aexit"
            /\ exc' = send(protocol)
    /\ logged' = NoLog
    /\ UNCHANGED <<config, frames, retries, proto, protocol, last_send,
                   state, planner, now, moves, sleeps>>

\* an iteration of _loop that acts on the message at the head of the queue
\* without taking it
LoopStepPeek ==
    /\ pc = "loop"
    /\ proto[Len(proto)].queue # <<>>
    /\ proto[Len(proto)].hb # "start"
    /\ \E t \in now..MaxClock :
       LET k == Len(proto)
           m == Head(proto[k].queue)
           h == handle_message(state, config, m, t)
           cfg == [config EXCEPT !.mode = h.mode]
           pl == [planner EXCEPT !.strategy = make_strategy(h.mode)]
           after == IF m.type = "disconnect" THEN "aexit" ELSE "loop"
       IN  /\ proto' = proto
           /\ now' = t
           /\ state' = h.state
           /\ config' = cfg
           /\ IF h.raised # "none"
              THEN /\ exc' = h.raised
                   /\ pc' = "aexit"
                   /\ wire' = NoFrame
                   /\ UNCHANGED <<planner, last_send, moves>>
              ELSE IF protocol = 0 \/ too_soon(t, cfg)
              THEN /\ planner' = pl
                   /\ pc' = after
                   /\ wire' = NoFrame
                   /\ UNCHANGED <<exc, last_send, moves>>
              ELSE \E decision \in select(pl.strategy, h.state, cfg) :
                   /\ planner' = step(pl, h.state, cfg, t, decision).planner
                   /\ IF send(protocol) = "sent"
                      THEN /\ wire' = Frame(protocol, "move")
                           /\ last_send' = t
                           /\ moves' = (IF moves = <<>> THEN <<>>
                                         ELSE <<moves[Len(moves)]>>)
                                           \o <<[at |-> t, conn |-> protocol]>>
                           /\ pc' = after
                           /\ exc' = exc
                      ELSE /\ exc' = send(protocol)
                           /\ pc' = "aexit"
                           /\ wire' = NoFrame
                           /\ UNCHANGED <<last_send, moves>>
    /\ logged' = NoLog
    /\ UNCHANGED <<frames, retries, protocol, sleeps>>

\* one iteration of _loop: queue.get, _handle_message, _maybe_act, and the
\* break of messages() after the disconnect message.  run was suspended in
\* queue.get, so the keep-alive task has had its first turn.
LoopStep ==
    /\ pc = "loop"
    /\ proto[Len(proto)].queue # <<>>
    /\ proto[Len(proto)].hb # "start"
    /\ \E t \in now..MaxClock :
       LET k == Len(proto)
           m == Head(proto[k].queue)
           h == handle_message(state, config, m, t)
           cfg == [config EXCEPT !.mode = h.mode]
           pl == [planner EXCEPT !.strategy = make_strategy(h.mode)]
           after == IF m.type = "disconnect" THEN "aexit" ELSE "loop"
       IN  /\ proto' = [proto EXCEPT ![k].queue = Tail(@)]
           /\ now' = t
           /\ state' = h.state
           /\ config' = cfg
           /\ IF h.raised # "none"
              THEN /\ exc' = h.raised
                   /\ pc' = "aexit"
                   /\ wire' = NoFrame
                   /\ UNCHANGED <<planner, last_send, moves>>
              ELSE IF protocol = 0 \/ too_soon(t, cfg)
              THEN /\ planner' = pl
                   /\ pc' = after
                   /\ wire' = NoFrame
                   /\ UNCHANGED <<exc, last_send, moves>>
              ELSE \E decision \in select(pl.strategy, h.state, cfg) :
                   /\ planner' = step(pl, h.state, cfg, t, decision).planner
                   /\ IF send(protocol) = "sent"
                      THEN /\ wire' = Frame(protocol, "move")
                           /\ last_send' = t
                           /\ moves' = (IF moves = <<>> THEN <<>>
                                         ELSE <<moves[Len(moves)]>>)
                                           \o <<[at |-> t, conn |-> protocol]>>
                           /\ pc' = after
                           /\ exc' = exc
                      ELSE /\ exc' = send(protocol)
                           /\ pc' = "aexit"
                           /\ wire' = NoFrame
                           /\ UNCHANGED <<last_send, moves>>
    /\ logged' = NoLog
    /\ UNCHANGED <<frames, retries, protocol, sleeps>>

\* close without line 50: the transport is closed but not forgotten
close_keeps_ws(p) ==
    LET q == IF p.receiver # "none" THEN [p EXCEPT !.stop = TRUE] ELSE p
    IN  IF p.receiver = "failed"
        THEN [p |-> q, raised |-> "AttributeError", closes |-> 0]
        ELSE IF q.ws
        THEN [p |-> [q EXCEPT !.link = "closed"], raised |-> "none", closes |-> 1]
        ELSE [p |-> q, raised |-> "none", closes |-> 0]

\* SlitherProtocol.close on a protocol object whose receiver task has ended
\* or was never started, so that line 47 does not wait: the object after the
\* call, the error the call raises, and how many times it closed a transport
close(p) ==
    LET q == IF p.receiver # "none" THEN [p EXCEPT !.stop = TRUE] ELSE p
    IN  IF p.receiver = "failed"
        THEN [p |-> q, raised |-> "AttributeError", closes |-> 0]
        ELSE IF q.ws
        THEN [p |-> [q EXCEPT !.ws = FALSE, !.link = "closed"],
              raised |-> "none", closes |-> 1]
        ELSE [p |-> q, raised |-> "none", closes |-> 0]

\* __aexit__ -> close, lines 45-46: the stop signal is set, then close
\* waits for the receiver task
CloseBegin ==
    /\ pc = "aexit"
    /\ proto' = IF proto[protocol].receiver # "none"
                THEN [proto EXCEPT ![protocol].stop = TRUE] ELSE proto
    /\ pc' = "close_wait"
    /\ Silent
    /\ UNCHANGED <<config, frames, retries, exc, protocol, last_send,
                   state, planner, now, moves, sleeps>>

\* close, lines 47-50: the await of the receiver task returns or re-raises
\* what the task died of; then the transport is closed and forgotten.  Both
\* awaits suspend run after both tasks were created, so the keep-alive task
\* has had its first turn.  The except of run catches whatever is in flight,
\* and the backoff begins.  The with block was the only reader of the queue:
\* what is left in it is dropped with the protocol object.
CloseJoin ==
    /\ pc = "close_wait"
    /\ proto[protocol].receiver \in {"none", "done", "failed"}
    /\ proto[protocol].hb # "start"
    /\ LET c == close(proto[protocol])
       IN  /\ proto' = [proto EXCEPT ![protocol] = [c.p EXCEPT !.queue = <<>>]]
           /\ Backoff(IF c.raised # "none" THEN c.raised ELSE exc)
    /\ wire' = NoFrame
    /\ UNCHANGED <<config, frames, protocol, last_send, state, planner,
                   now, moves>>

\* the loop test of line 34 with < for <=
WakeStrict ==
    /\ pc = "backoff"
    /\ pc' = IF retries < config.reconnect_attempts THEN "connect" ELSE "done"
    /\ Silent
    /\ UNCHANGED <<config, frames, retries, exc, proto, protocol,
                   last_send, state, planner, now, moves, sleeps>>

\* line 49 and the loop test of line 34
Wake ==
    /\ pc = "backoff"
    /\ pc' = IF retries <= config.reconnect_attempts THEN "connect" ELSE "done"
    /\ Silent
    /\ UNCHANGED <<config, frames, retries, exc, proto, protocol,
                   last_send, state, planner, now, moves, sleeps>>

\* ---- the receiver and keep-alive tasks, and the server ----
RECURSIVE Pending(_, _)
\* how many items (type "food_batch") or zones (type "hazard") wait in a queue
Pending(queue, type) ==
    IF queue = <<>> THEN 0
    ELSE Pending(Tail(queue), type) +
         (IF Head(queue).type # type THEN 0
          ELSE IF type = "hazard" THEN 1
          ELSE IF Has(Head(queue).payload, "items") /\ Head(queue).payload.items.ok
               THEN Len(Head(queue).payload.items.v) ELSE 0)

\* the bounds on the queue and on the item and zone lists, kept at the door
Fits(k, m) ==
    /\ Len(proto[k].queue) < MaxQueue
    /\ m.type = "food_batch" =>
           Len(state.foods) + Pending(Put(k, m)[k].queue, "food_batch") <= MaxFoods
    /\ m.type = "hazard" =>
           Len(state.hazards) + Pending(Put(k, m)[k].queue, "hazard") <= MaxHazards

\* _receiver, lines 55-63: one frame read from the open transport
Receive(k, f) ==
    /\ proto[k].receiver = "running"
    /\ proto[k].link = "open"
    /\ IF f.k = "garbage" THEN proto' = proto
       ELSE IF f.k = "nonobj"
       THEN proto' = [Put(k, Disconnect) EXCEPT ![k].receiver = "failed"]
       ELSE LET m == IncomingMessage(Get(f, "type", "unknown"), Get(f, "payload", <<>>))
            IN  /\ Fits(k, m)
                /\ proto' = Put(k, m)
    /\ Silent
    /\ UNCHANGED <<config, frames, pc, retries, exc, protocol, last_send,
                   state, planner, now, moves, sleeps>>

\* the remote side or the network closes the transport
ServerClose(k) ==
    /\ proto[k].link = "open"
    /\ proto' = [proto EXCEPT ![k].link = "closed"]
    /\ Silent
    /\ UNCHANGED <<config, frames, pc, retries, exc, protocol, last_send,
                   state, planner, now, moves, sleeps>>

\* _receiver, lines 55 and 64-67: the iteration over the transport ends or
\* raises ConnectionClosed
ReceiverClosed(k) ==
    /\ proto[k].receiver = "running"
    /\ proto[k].link = "closed"
    /\ proto' = [Put(k, Disconnect) EXCEPT ![k].receiver = "done"]
    /\ Silent
    /\ UNCHANGED <<config, frames, pc, retries, exc, protocol, last_send,
                   state, planner, now, moves, sleeps>>

\* _heartbeat, line 71: the loop test, here when the task first runs
HeartbeatStart(k) ==
    /\ proto[k].hb = "start"
    /\ proto' = [proto EXCEPT ![k].hb = IF proto[k].stop THEN "done" ELSE "sleep"]
    /\ Silent
    /\ UNCHANGED <<config, frames, pc, retries, exc, protocol, last_send,
                   state, planner, now, moves, sleeps>>

\* a keep-alive task whose send failure closes the session
HeartbeatFatal(k) ==
    /\ proto[k].hb = "sleep"
    /\ IF send(k) = "sent"
       THEN /\ wire' = Frame(k, "heartbeat")
            /\ logged' = NoLog
            /\ proto' = [proto EXCEPT ![k].hb = IF proto[k].stop THEN "done" ELSE "sleep"]
       ELSE /\ wire' = NoFrame
            /\ logged' = Log("heartbeat", send(k))
            /\ proto' = [proto EXCEPT ![k].hb = "done", ![k].ws = FALSE,
                                      ![k].queue = <<Disconnect>>]
    /\ UNCHANGED <<config, frames, pc, retries, exc, protocol, last_send,
                   state, planner, now, moves, sleeps>>

\* _heartbeat, lines 73-79 and 71: the sleep is over, the frame is sent and
\* the loop test follows, or the send raises, which line 78 logs
Heartbeat(k) ==
    /\ proto[k].hb = "sleep"
    /\ IF send(k) = "sent"
       THEN /\ wire' = Frame(k, "heartbeat")
            /\ logged' = NoLog
            /\ proto' = [proto EXCEPT ![k].hb = IF proto[k].stop THEN "done" ELSE "sleep"]
       ELSE /\ wire' = NoFrame
            /\ logged' = Log("heartbeat", send(k))
            /\ proto' = [proto EXCEPT ![k].hb = "done"]
    /\ UNCHANGED <<config, frames, pc, retries, exc, protocol, last_send,
                   state, planner, now, moves, sleeps>>

\* ---- the runs ----
\* frames that bear on the session only
SessionFrames ==
    {Garbage, NonObject, Untyped, Obj("disconnect", <<>>)}

\* frames about actors and the mode
ActorFrames ==
    {Obj("snake", [id |-> "a", self |-> TRUE]),
     Obj("snake", [id |-> "b", self |-> TRUE, heading |-> 90000]),
     Obj("snake", [id |-> "a"]),
     Obj("snake_leave", [id |-> "a"]),
     Obj("mode", [value |-> "bogus"])}

\* frames about items and zones
ItemFrames ==
    {Obj("food_batch", [items |-> Val(<<1, 2>>)]),
     Obj("food_batch", [items |-> Bad]),
     Obj("hazard", [duration |-> Val(1)]),
     Obj("hazard", <<>>)}

\* frames that change each part of the world model
WorldFrames ==
    {Obj("world", [size |-> Val(<<800, 800>>)]),
     Obj("snake", [id |-> "a"]),
     Obj("food_batch", [items |-> Val(<<1>>)]),
     Obj("hazard", [duration |-> Val(1)])}

Start(cfg, fs) ==
    /\ config = cfg
    /\ frames = fs
    /\ pc = IF 0 <= cfg.reconnect_attempts THEN "connect" ELSE "done"
    /\ retries = 0
    /\ exc = "none"
    /\ proto = <<>>
    /\ protocol = 0
    /\ last_send = 0
    /\ state = GameState
    /\ planner = ActionPlanner(make_strategy(cfg.mode), 0)
    /\ now = 0
    /\ wire = NoFrame
    /\ logged = NoLog
    /\ moves = <<>>
    /\ sleeps = <<>>

Init ==
    \E a \in 0..MaxReconnect, r \in 1..MaxRateLimit :
        Start(BotConfig(a, 2, r, 1), SessionFrames)

Next ==
    \/ ConnectOk
    \/ ConnectFail
    \/ Join
    \/ LoopStep
    \/ CloseBegin
    \/ CloseJoin
    \/ Wake
    \/ \E k \in DOMAIN proto, f \in frames : Receive(k, f)
    \/ \E k \in DOMAIN proto : ServerClose(k)
    \/ \E k \in DOMAIN proto : ReceiverClosed(k)
    \/ \E k \in DOMAIN proto : HeartbeatStart(k)
    \/ \E k \in DOMAIN proto : Heartbeat(k)

Spec == Init /\ [][Next]_vars

\* one attempt allowed, against a server that sends actor updates
ActorInit == Start(BotConfig(0, 2, 1, 1), ActorFrames)

ActorSpec == ActorInit /\ [][Next]_vars

\* one attempt allowed, against a server that sends items and zones
ItemInit == Start(BotConfig(0, 2, 1, 1), ItemFrames)

ItemSpec == ItemInit /\ [][Next]_vars

\* two attempts allowed, against a server that sends the world
ReconnectInit == Start(BotConfig(1, 2, 2, 0), WorldFrames)

ReconnectSpec == ReconnectInit /\ [][Next]_vars

\* ---- the world model on its own: GameState under any sequence of calls ----
Masses == {1, 2}
Batches == {<<m>> : m \in Masses} \cup {<<m, n>> : m \in Masses, n \in Masses}

\* update_food with a batch of items created at the same reading of the clock
UpdateFood ==
    /\ \E batch \in Batches, t \in 0..MaxClock :
          /\ Len(state.foods) + Len(batch) <= MaxFoods
          /\ state' = update_food(state, [i \in DOMAIN batch |-> Food(batch[i], t)])
    /\ UNCHANGED <<config, frames, pc, retries, exc, proto, protocol,
                   last_send, planner, now, wire, logged, moves, sleeps>>

DecayFood ==
    /\ \E t \in 0..MaxClock, age \in 0..MaxClock : state' = decay_food(state, t, age)
    /\ UNCHANGED <<config, frames, pc, retries, exc, proto, protocol,
                   last_send, planner, now, wire, logged, moves, sleeps>>

MarkHazard ==
    /\ Len(state.hazards) < MaxHazards
    /\ \E expires \in 0..MaxClock + 1 : state' = mark_hazard(state, expires)
    /\ UNCHANGED <<config, frames, pc, retries, exc, proto, protocol,
                   last_send, planner, now, wire, logged, moves, sleeps>>

PruneHazards ==
    /\ \E t \in 0..MaxClock : state' = prune_hazards(state, t)
    /\ UNCHANGED <<config, frames, pc, retries, exc, proto, protocol,
                   last_send, planner, now, wire, logged, moves, sleeps>>

StateInit == Start(BotConfig(0, 2, 1, 1), {})

StateNext == UpdateFood \/ DecayFood \/ MarkHazard \/ PruneHazards

StateSpec == StateInit /\ [][StateNext]_vars

\* ---- the planner on its own: step and blend_headings under any calls ----
Headings == {i * 45000 : i \in 0..7}
Intervals == {1, 500, 1000, 2000, 4000}      \* dt in milliseconds

\* update_snakes with the self actor at some heading
Observe ==
    /\ \E heading \in Headings : state' = update_snakes(state, Snake("a", heading, TRUE))
    /\ UNCHANGED <<config, frames, pc, retries, exc, proto, protocol,
                   last_send, planner, now, wire, logged, moves, sleeps>>

\* remove_snake of the self actor
Lose ==
    /\ state' = remove_snake(state, "a")
    /\ UNCHANGED <<config, frames, pc, retries, exc, proto, protocol,
                   last_send, planner, now, wire, logged, moves, sleeps>>

\* ActionPlanner.step at a reading of the clock, for some decision
Plan ==
    /\ \E t \in planner.last_time..MaxClock, heading \in Bearings :
          planner' = step(planner, state, config, t,
                          StrategyDecision(heading, FALSE, "food")).planner
    /\ UNCHANGED <<config, frames, pc, retries, exc, proto, protocol,
                   last_send, state, now, wire, logged, moves, sleeps>>

PlannerInit == Start(BotConfig(0, 2, 1, 1), {})

PlannerNext == Observe \/ Lose \/ Plan

PlannerSpec == PlannerInit /\ [][PlannerNext]_vars

\* The event loop runs every task that can run: the steps of run and of the
\* two tasks are weakly fair.  What the server sends, when it closes and
\* whether a connection attempt succeeds are not.
Fairness ==
    /\ WF_vars(Join) /\ WF_vars(LoopStep) /\ WF_vars(CloseBegin)
    /\ WF_vars(CloseJoin) /\ WF_vars(Wake)
    /\ WF_vars(\E k \in DOMAIN proto : ReceiverClosed(k))
    /\ WF_vars(\E k \in DOMAIN proto : HeartbeatStart(k))
    /\ WF_vars(\E k \in DOMAIN proto : Heartbeat(k))

FairInit == Start(BotConfig(0, 2, 1, 1), SessionFrames)

FairSpec == FairInit /\ [][Next]_vars /\ Fairness

TypeOK ==
    /\ pc \in {"connect", "join", "loop", "aexit", "close_wait", "backoff", "done"}
    /\ retries \in 0..MaxReconnect + 1
    /\ protocol \in 0..Len(proto)
    /\ Len(moves) <= 2

\* ---- the claims ----
AllFailed == \A k \in DOMAIN proto : proto[k].link = "none"
BackoffDelays(n) == [i \in 1..n |-> config.reconnect_backoff * i]

\* C1: while every connection attempt has failed, the k-th attempt is
\* followed by a sleep of reconnect_backoff * k, the last one included, and
\* run ends after exactly reconnect_attempts + 1 attempts.
C1_ReconnectBudget ==
    AllFailed =>
        /\ Len(proto) <= config.reconnect_attempts + 1
        /\ retries = Len(proto)
        /\ sleeps = BackoffDelays(Len(proto))
        /\ pc = "done" => Len(proto) = config.reconnect_attempts + 1

C1_Witness ==
    /\ AllFailed /\ pc = "done"
    /\ Len(proto) > 1
    /\ sleeps = BackoffDelays(config.reconnect_attempts + 1)

\* C2: two successively transmitted move commands were sent at message
\* timestamps at least send_rate_limit apart, on whatever connections.
C2_RateLimit ==
    Len(moves) = 2 => moves[2].at - moves[1].at >= config.send_rate_limit

C2_Witness == Len(moves) = 2 /\ moves[1].conn # moves[2].conn

\* C3: at most one actor of the world model has is_self = true.
C3_SingleSelf == Cardinality(Selves(state)) <= 1

HasDisconnect(queue) == \E i \in DOMAIN queue : queue[i].type = "disconnect"

\* C4: a disconnect message is in the queue of a connection only when that
\* connection's transport has closed.
C4_DisconnectOnlyOnClosure ==
    \A k \in DOMAIN proto : HasDisconnect(proto[k].queue) => proto[k].link = "closed"

\* C5: malformed server data never aborts a session: no receiver dies of a
\* frame, and no error raised by the shape of inbound data ends the loop.
C5_MalformedNeverAborts ==
    /\ \A k \in DOMAIN proto : proto[k].receiver # "failed"
    /\ exc \notin {"TypeError", "AttributeError"}

\* C6: once close() waits for the receiver, it eventually returns.
C6_CloseReturns == (pc = "close_wait") ~> (pc # "close_wait")

CloseReturned(k) == proto[k].stop /\ proto[k].receiver = "done" /\ ~proto[k].ws

\* C7: when close() has returned, the keep-alive task of that session has
\* terminated.
C7_TasksJoined ==
    \A k \in DOMAIN proto : CloseReturned(k) => proto[k].hb \in {"none", "done"}

Active(k) == proto[k].ws /\ proto[k].link = "open"

\* C8: a frame goes on the wire only through a send on an active transport,
\* in the step of the call; a send with no transport fails with the
\* not-connected error and transmits nothing.
C8_Send ==
    [][/\ wire' # NoFrame => Active(wire'.conn)
       /\ (pc = "join" /\ pc' # "join" /\ Active(protocol)) =>
              pc' = "loop" /\ wire' = Frame(protocol, "join")
       /\ \A k \in DOMAIN proto :
           /\ (proto[k].hb = "sleep" /\ proto'[k].hb = "done" /\ Active(k)) =>
                  wire' = Frame(k, "heartbeat")
           /\ (proto[k].hb = "sleep" /\ proto'[k].hb = "done" /\ ~proto[k].ws) =>
                  logged' = Log("heartbeat", "RuntimeError") /\ wire' = NoFrame]_vars

C8_Witness ==
    /\ logged = Log("heartbeat", "RuntimeError")
    /\ \E k \in DOMAIN proto : CloseReturned(k) /\ proto[k].hb = "done"

\* C9: an unsupported mode value reaches the caller of run: run does not
\* catch it, and so neither sleeps the backoff, nor attempts again, nor
\* returns normally after it.
C9_ModeErrorFatal ==
    logged = Log("run", "ValueError") => pc \notin {"backoff", "connect", "done"}

\* C10: after a message was processed at time now, every item is at most
\* food_decay_seconds old and every zone expires after now.
C10_SweptAfterEveryMessage ==
    /\ \A i \in DOMAIN state.foods :
           now - state.foods[i].created <= config.food_decay_seconds
    /\ \A i \in DOMAIN state.hazards : state.hazards[i].expires > now

OpenTransports == {k \in DOMAIN proto : proto[k].link = "open"}

\* C11: at most one transport is open at a time: the transport of an attempt
\* is closed before the next attempt opens its own.
C11_OneSession == Cardinality(OpenTransports) <= 1

\* C12: the world model changes only in the step that handles a message
\* taken from the queue: connect, join, close, the backoff, and the steps of
\* the tasks and of the server leave actors, items, zones and bounds as
\* they were.
C12_WorldKeptAcrossSessions ==
    [][state' # state =>
          /\ pc = "loop"
          /\ proto[protocol].queue # <<>>
          /\ proto'[protocol].queue = Tail(proto[protocol].queue)]_vars

C12_Witness ==
    /\ Len(proto) = 2 /\ pc = "join"
    /\ state.snakes # <<>> /\ state.foods # <<>> /\ state.hazards # <<>>
    /\ state.world_size # GameState.world_size

\* C13: the step in which a keep-alive send fails ends that keep-alive task
\* and nothing else: every transport, stop signal, receiver and queue is as
\* before (no disconnect message is added), and run is where it was.
C13_HeartbeatFailureLocal ==
    [][logged'.where = "heartbeat" =>
          /\ \E k \in DOMAIN proto :
                /\ proto[k].hb = "sleep"
                /\ proto' = [proto EXCEPT ![k].hb = "done"]
          /\ wire' = NoFrame
          /\ UNCHANGED <<pc, exc, retries, protocol, state, planner, last_send>>]_vars

\* the keep-alive task of the current session has failed while the control
\* loop has a message to process and the receiver is still reading
C13_Witness ==
    /\ logged = Log("heartbeat", "ConnectionClosed")
    /\ pc = "loop"
    /\ proto[protocol].hb = "done"
    /\ proto[protocol].receiver = "running"
    /\ proto[protocol].queue # <<>>

NoOp(p) == [p |-> p, raised |-> "none", closes |-> 0]
NeverConnected(p) == p.link = "none"

\* C14: when a close() has returned, the transport is closed, send() is
\* rejected, and a further close() changes nothing, closes nothing and
\* raises nothing; the same further close() on a session that was never
\* connected.
C14_CloseIdempotent ==
    [][/\ (pc = "close_wait" /\ pc' = "backoff"
             /\ proto[protocol].receiver # "failed") =>
              /\ proto'[protocol].link = "closed"
              /\ send(protocol)' = "RuntimeError"
              /\ close(proto'[protocol]) = NoOp(proto'[protocol])
       /\ \A k \in DOMAIN proto' :
              (CloseReturned(k)' \/ NeverConnected(proto'[k])) =>
                  close(proto'[k]) = NoOp(proto'[k])]_vars

\* one attempt never connected, and the close of another has returned
C14_Witness ==
    /\ pc = "backoff" /\ protocol > 0
    /\ CloseReturned(protocol)
    /\ \E k \in DOMAIN proto : NeverConnected(proto[k])

\* C15: when run has ended because the attempts are used up, it has ended
\* with an error in flight to its caller, not by falling out of its loop
\* with nothing raised.
C15_ExhaustionReported ==
    (pc = "done" /\ retries > config.reconnect_attempts) => exc # "none"

RECURSIVE IsSubSeq(_, _)
\* a is b with some elements left out, the others in the order of b
IsSubSeq(a, b) ==
    IF a = <<>> THEN TRUE
    ELSE IF b = <<>> THEN FALSE
    ELSE IF Head(a) = Head(b) THEN IsSubSeq(Tail(a), Tail(b))
    ELSE IsSubSeq(a, Tail(b))

\* C16: after any ingests, decay_food(t, maxAge) keeps the items with
\* t - created <= maxAge, all of them and no others, in the order they had.
C16_DecayExact ==
    \A t \in 0..MaxClock, age \in 0..MaxClock :
        LET kept == decay_food(state, t, age).foods
            fresh == {i \in DOMAIN state.foods : t - state.foods[i].created <= age}
        IN  /\ IsSubSeq(kept, state.foods)
            /\ \A i \in DOMAIN kept : t - kept[i].created <= age
            /\ Len(kept) = Cardinality(fresh)

\* items of two ingests, of which a sweep removes one and keeps the other
C16_Witness ==
    /\ Len(state.foods) = 2
    /\ state.foods[1].created # state.foods[2].created
    /\ \E t \in 0..MaxClock, age \in 0..MaxClock :
           Len(decay_food(state, t, age).foods) = 1

\* C17: after any inserts, prune_hazards(t) keeps the zones with
\* expires > t, all of them and no others (a zone with expires = t goes),
\* each entry on its own account, and a second prune at t changes nothing.
C17_PruneExact ==
    \A t \in 0..MaxClock :
        LET pruned == prune_hazards(state, t)
            live == {i \in DOMAIN state.hazards : state.hazards[i].expires > t}
        IN  /\ IsSubSeq(pruned.hazards, state.hazards)
            /\ \A i \in DOMAIN pruned.hazards : pruned.hazards[i].expires > t
            /\ Len(pruned.hazards) = Cardinality(live)
            /\ prune_hazards(pruned, t) = pruned

\* two equal zones that a prune at their expiry removes and an earlier one keeps
C17_Witness ==
    /\ Len(state.hazards) = 2
    /\ state.hazards[1] = state.hazards[2]
    /\ \E t \in 1..MaxClock :
           /\ state.hazards[1].expires = t
           /\ prune_hazards(state, t).hazards = <<>>
           /\ Len(prune_hazards(state, t - 1).hazards) = 2

\* C18: with no self actor in the world model, whenever step is called it
\* returns the last emitted heading with throttle 0, no boost and reason
\* "waiting", and the planner's last heading, time and plan stay as they are.
C18_WaitingWithoutSelf ==
    Selves(state) = {} =>
        \A t \in now..MaxClock :
            \A decision \in select(planner.strategy, state, config) :
                step(planner, state, config, t, decision) =
                    [planner |-> planner,
                     plan |-> PlannedAction(planner.last_heading, FALSE, 0, "waiting")]

\* a move was just sent for a world without self actor, by a planner that
\* had emitted a heading before
C18_Witness ==
    /\ Selves(state) = {}
    /\ planner.last_heading # 0
    /\ Has(planner.last_plan, "heading")
    /\ wire = Frame(protocol, "move")

\* C19: with a self actor, step smooths from the heading emitted by the
\* previous step that had a self actor, whatever its value, and from the
\* actor's heading only when no such step has happened yet.
C19_SmoothFromLastEmitted ==
    Selves(state) # {} =>
        \A t \in now..MaxClock :
            \A decision \in select(planner.strategy, state, config) :
                LET elapsed == (t - planner.last_time) * 1000
                    dt == IF elapsed > 1 THEN elapsed ELSE 1
                    from == IF Has(planner.last_plan, "none")
                            THEN self_snake(state).heading
                            ELSE planner.last_plan.heading
                IN  step(planner, state, config, t, decision).plan.heading =
                        blend_headings(from, decision.heading, config.turning_rate, dt)

\* target - current wrapped into (-180, 180] degrees
WrappedDelta(current, target) ==
    LET d == (target - current) % 360000
    IN  IF d > 180000 THEN d - 360000 ELSE d

\* the rule of the planner's smoothing: snap when within reach, else step
\* by rate * dt in the sign of the wrapped delta
ReferenceBlend(current, target, rate, dt) ==
    LET delta == WrappedDelta(current, target)
    IN  IF Abs(delta) <= rate * dt THEN target
        ELSE (current + Sign(delta) * rate * dt) % 360000

\* C20: blend_headings equals the reference rule for every emitted heading
\* as current, every target of the grid and every interval; headings
\* exactly 180 degrees apart are approached in the positive direction.
C20_BlendIsReference ==
    \A target \in Headings, dt \in Intervals :
        blend_headings(planner.last_heading, target, config.turning_rate, dt) =
            ReferenceBlend(planner.last_heading, target, config.turning_rate, dt)

\* the length of the shorter arc between two headings
ArcDistance(a, b) ==
    LET d == (a - b) % 360000
    IN  IF d > 180000 THEN 360000 - d ELSE d

\* C21: from every emitted heading, towards every target of the grid and for
\* every interval including 0, blend_headings returns either the target or a
\* heading at most rate * dt away from current along the shorter arc; and
\* from the target itself it returns the target.
C21_NoOvershoot ==
    \A target \in Headings, dt \in Intervals \cup {0} :
        LET current == planner.last_heading
            out == blend_headings(current, target, config.turning_rate, dt)
        IN  /\ current \in 0..359999
            /\ out = target \/ ArcDistance(out, current) <= config.turning_rate * dt
            /\ current = target => out = target

\* the planner has emitted a heading between two grid headings, and from it
\* some target is out of reach of one step
C21_Witness ==
    /\ Has(planner.last_plan, "heading")
    /\ planner.last_heading \notin Headings
    /\ \E target \in Headings, dt \in Intervals :
           LET out == blend_headings(planner.last_heading, target,
                                     config.turning_rate, dt)
           IN  /\ out # target
               /\ ArcDistance(out, planner.last_heading) = config.turning_rate * dt

\* C22: the retry counter never decreases, it counts the attempts that have
\* ended, and no more than reconnect_attempts + 1 sessions are ever opened,
\* however each of them ended.
C22_RetriesNeverReset ==
    [][/\ retries' \in {retries, retries + 1}
       /\ retries' \in {Len(proto') - 1, Len(proto')}
       /\ Len(proto') <= config.reconnect_attempts + 1]_vars

\* run has ended after more than one session, each of which connected and
\* was closed without error after the server closed the transport
C22_Witness ==
    /\ pc = "done"
    /\ Len(proto) > 1
    /\ Len(proto) = config.reconnect_attempts + 1
    /\ \A k \in DOMAIN proto : CloseReturned(k)

\* the control loop takes a disconnect message from the queue in this step
TakesDisconnect ==
    /\ pc = "loop"
    /\ proto[protocol].queue # <<>>
    /\ Head(proto[protocol].queue).type = "disconnect"
    /\ proto'[protocol].queue = Tail(proto[protocol].queue)

\* C23: the step that takes the disconnect message of a connection from the
\* queue puts no move command on the wire (and no later step of run does,
\* the loop having ended).
C23_NoMoveForDisconnect ==
    [][TakesDisconnect => wire' = NoFrame]_vars

IsMove(frame) == Has(frame, "type") /\ frame.type = "move"

\* the control loop takes a message from the queue of its connection
TakesMessage ==
    /\ pc = "loop"
    /\ proto[protocol].queue # <<>>
    /\ proto'[protocol].queue = Tail(proto[protocol].queue)

\* C24: a move command goes on the wire only in a step that takes a message
\* from the queue, one at most per message and on the current connection;
\* any other step puts on the wire nothing, the join or a keep-alive frame,
\* and while run waits in its loop only keep-alive frames.
C24_MoveOnlyPerMessage ==
    [][/\ IsMove(wire') => TakesMessage /\ wire' = Frame(protocol, "move")
       /\ (wire' # NoFrame /\ ~TakesMessage) =>
              /\ wire'.type \in {"join", "heartbeat"}
              /\ pc = "loop" => wire'.type = "heartbeat"]_vars

\* after a move on the current connection the server is silent: the queue is
\* empty, run waits in its loop, and a keep-alive frame was just sent
C24_Witness ==
    /\ pc = "loop"
    /\ proto[protocol].queue = <<>>
    /\ moves # <<>> /\ moves[Len(moves)].conn = protocol
    /\ wire = Frame(protocol, "heartbeat")
====
